---- MODULE Spec2Model ----
(***************************************************************************)
(* The keyring storage engine: the V1 (gzip + JSON + base64) and V2 (ZIP)  *)
(* codecs, the GnuPG binding with its per-call temporary home directory,   *)
(* and read_keystore / write_keystore with the write-to-".writing"-then-   *)
(* rename protocol.                                                        *)
(*                                                                         *)
(* Bytes are sequences of integers 0..255.  A base64 text is a sequence of *)
(* character codes: 0..63 is the alphabet character of that value, 64 is   *)
(* '=', 65 is an ASCII character outside the alphabet, 66 is a non-ASCII   *)
(* character.  The layers that the libraries own (gzip framing, JSON       *)
(* syntax, ZIP directory, OpenPGP packets) are tagged records; the layers  *)
(* the repository owns (entry <-> JSON object, base64, manifest) are       *)
(* computed.                                                               *)
(***************************************************************************)
EXTENDS Integers, Sequences, FiniteSets, TLC

-----------------------------------------------------------------------------
(* Bounds *)

\* longest payload (bytes) of an entry in the round-trip input domain
MaxDataLen == 2
\* number of read_keystore / write_keystore calls in one behaviour
MaxCalls == 2
\* number of buffer flushes that carry a complete ciphertext to the file
MaxChunks == 2
\* bytes in a stream that no codec wrote
MaxStreamLen == 4
\* number of command-line invocations in one behaviour
MaxCommands == 3

-----------------------------------------------------------------------------
(* Input domains *)

ByteVals == {77, 251}
Names == {"a", "b"}
Mimetypes == {"text/plain", "application/json"}
Passphrases == {"hunter2", "wrong"}

RECURSIVE SeqsUpTo(_, _)
SeqsUpTo(S, n) ==
    IF n = 0 THEN {<<>>}
    ELSE LET shorter == SeqsUpTo(S, n - 1)
         IN  shorter \cup {Append(s, x) : s \in {t \in shorter : Len(t) = n - 1}, x \in S}

\* base.Item(mimetype, data)
Item(mimetype, data) == [mimetype |-> mimetype, data |-> data]

ItemsUpTo(n) == {Item(m, d) : m \in Mimetypes, d \in SeqsUpTo(ByteVals, n)}

\* a store object: a dict subclass tagged with its codec class
MkStore(format, items) == [format |-> format, items |-> items]

StoresOver(names, items) ==
    UNION {[dom -> items] : dom \in SUBSET names}

EmptyItems == <<>>
\* a plain dict passed where a store object is expected
PlainDict(items) == MkStore("dict", items)
NoStore == MkStore("none", EmptyItems)

-----------------------------------------------------------------------------
(* base64 (v1_json._base64_encode / _base64_decode) *)

\* base64.b64encode(data).decode('ascii'): three bytes become four alphabet
\* characters, a tail of one or two bytes is padded with '='
RECURSIVE B64Groups(_)
B64Groups(d) ==
    IF Len(d) = 0 THEN <<>>
    ELSE IF Len(d) = 1 THEN
        << d[1] \div 4, (d[1] % 4) * 16, 64, 64 >>
    ELSE IF Len(d) = 2 THEN
        << d[1] \div 4, (d[1] % 4) * 16 + (d[2] \div 16), (d[2] % 16) * 4, 64 >>
    ELSE
        << d[1] \div 4, (d[1] % 4) * 16 + (d[2] \div 16),
           (d[2] % 16) * 4 + (d[3] \div 64), d[3] % 64 >>
        \o B64Groups(SubSeq(d, 4, Len(d)))

UnpaddedBase64Encode(data) == SelectSeq(B64Groups(data), LAMBDA c : c # 64)

_base64_encode(data) == B64Groups(data)

\* binascii.a2b_base64 without validation: characters outside the alphabet
\* are skipped, a pad that completes a quad ends the input, and leftover
\* characters of an incomplete quad are an error
RECURSIVE A2B(_, _, _, _, _, _)
A2B(s, i, quad, left, pads, out) ==
    IF i > Len(s) THEN
        IF quad # 0 THEN [ok |-> FALSE, data |-> <<>>]
        ELSE [ok |-> TRUE, data |-> out]
    ELSE LET c == s[i] IN
        IF c = 64 THEN
            IF quad >= 2 /\ quad + pads + 1 >= 4
            THEN [ok |-> TRUE, data |-> out]
            ELSE A2B(s, i + 1, quad, left, IF quad >= 2 THEN pads + 1 ELSE pads, out)
        ELSE IF c > 64 THEN A2B(s, i + 1, quad, left, pads, out)
        ELSE IF quad = 0 THEN A2B(s, i + 1, 1, c, 0, out)
        ELSE IF quad = 1 THEN
            A2B(s, i + 1, 2, c % 16, 0, Append(out, left * 4 + (c \div 16)))
        ELSE IF quad = 2 THEN
            A2B(s, i + 1, 3, c % 4, 0, Append(out, left * 16 + (c \div 4)))
        ELSE
            A2B(s, i + 1, 0, 0, 0, Append(out, left * 64 + c))

\* encoded_data.encode('ascii') raises on a non-ASCII character, then
\* base64.b64decode
_base64_decode(encoded_data) ==
    IF \E i \in 1..Len(encoded_data) : encoded_data[i] = 66
    THEN [ok |-> FALSE, exc |-> "UnicodeEncodeError", data |-> <<>>]
    ELSE LET r == A2B(encoded_data, 1, 0, 0, 0, <<>>)
         IN  [ok |-> r.ok, exc |-> IF r.ok THEN "" ELSE "binascii.Error", data |-> r.data]

-----------------------------------------------------------------------------
(* Results of a call: a returned value or a raised exception *)

Return(store) == [kind |-> "return", exc |-> "", store |-> store]
Raise(exc) == [kind |-> "raise", exc |-> exc, store |-> NoStore]
NoResult == [kind |-> "none", exc |-> "", store |-> NoStore]

-----------------------------------------------------------------------------
(* V1: one JSON document (v1_json.py), gzip-compressed (base.py) *)

\* a JSON text: whether it decodes as UTF-8, whether it parses, the kind of
\* its top-level value, and the members of a top-level object
JsonText(top, members) ==
    [utf8 |-> TRUE, json |-> TRUE, top |-> top, members |-> members]
NoText == [utf8 |-> TRUE, json |-> FALSE, top |-> "none", members |-> <<>>]

\* the JSON object {"type": ..., "data": ...} of one entry; has is the set
\* of keys present
JEntry(has, type, data) == [has |-> has, type |-> type, data |-> data]

\* a decrypted byte stream: a gzip member around a text, a ZIP archive, or
\* other bytes
Plaintext(fmt, text, zip, raw) == [fmt |-> fmt, text |-> text, zip |-> zip, raw |-> raw]
RawPlaintext(raw) == Plaintext("raw", NoText, <<>>, raw)

\* V1JsonStore._write_store_data: json.dump of {k: {'type', 'data'}}
V1JsonStore_write_store_data(store) ==
    JsonText("object",
             [k \in DOMAIN store.items |->
                 JEntry({"type", "data"},
                        store.items[k].mimetype,
                        _base64_encode(store.items[k].data))])

\* Keystore._compress: gzip.GzipFile(mode='wb')
_compress(text) == Plaintext("gzip", text, <<>>, <<>>)

\* Keystore.write
Keystore_write(store) == _compress(V1JsonStore_write_store_data(store))

\* Keystore._decompress: gzip.GzipFile(mode='rb'); an empty stream reads as
\* empty, any other stream without the gzip header is BadGzipFile
_decompress(pt) ==
    IF pt.fmt = "gzip" THEN [ok |-> TRUE, text |-> pt.text]
    ELSE IF pt.fmt = "raw" /\ pt.raw = <<>> THEN [ok |-> TRUE, text |-> NoText]
    ELSE [ok |-> FALSE, text |-> NoText]

\* the exception one entry raises in the loop of _read_store_data, or ""
EntryError(v) ==
    IF "type" \notin v.has THEN "KeyError"
    ELSE IF "data" \notin v.has THEN "KeyError"
    ELSE _base64_decode(v.data).exc

\* V1JsonStore._read_store_data
V1JsonStore_read_store_data(text) ==
    IF ~text.utf8 THEN Raise("UnicodeDecodeError")
    ELSE IF ~text.json THEN Raise("JSONDecodeError")
    ELSE IF text.top # "object" THEN Raise("AttributeError")
    ELSE LET bad == {k \in DOMAIN text.members : EntryError(text.members[k]) # ""}
         IN  IF bad # {}
             THEN Raise(EntryError(text.members[CHOOSE k \in bad : TRUE]))
             ELSE Return(MkStore("v1-json",
                      [k \in DOMAIN text.members |->
                          Item(text.members[k].type,
                               _base64_decode(text.members[k].data).data)]))

\* Keystore.read
Keystore_read(pt) ==
    LET d == _decompress(pt)
    IN  IF ~d.ok THEN Raise("BadGzipFile") ELSE V1JsonStore_read_store_data(d.text)

-----------------------------------------------------------------------------
(* V2: a ZIP archive with META-INF/MAGIC and META-INF/CONTENTS (v2_zip.py) *)

\* 'application/vnd.keyring.v2-zip.magic'.encode('ascii')
_ZIP_KEYRING_MAGIC ==
    <<97, 112, 112, 108, 105, 99, 97, 116, 105, 111, 110, 47, 118, 110, 100, 46, 107, 101, 121, 114, 105, 110, 103, 46, 118, 50, 45, 122, 105, 112, 46, 109, 97, 103, 105, 99>>

\* the content of an archive member: bytes, or the JSON text of a manifest
BytesContent(bytes) == [kind |-> "bytes", bytes |-> bytes, man |-> <<>>, mtop |-> "none", mok |-> TRUE]
\* a manifest text: mok is whether it is valid UTF-8 JSON, mtop the kind of
\* its top-level value, man its elements
ManifestContent(mok, mtop, man) ==
    [kind |-> "json", bytes |-> <<>>, man |-> man, mtop |-> mtop, mok |-> mok]
ManifestRecord(has, zip_path, mimetype) ==
    [has |-> has, zip_path |-> zip_path, mimetype |-> mimetype]
ZMember(name, content) == [name |-> name, content |-> content]

\* zdata.read() on a member: its bytes; of a manifest text, the leading
\* bytes, which for json.dumps of a list are '[]' or '[{"zip_path": "'
MemberRead(content) ==
    IF content.kind = "bytes" THEN content.bytes
    ELSE IF ~content.mok THEN <<255>>
    ELSE IF content.mtop = "array"
         THEN IF Len(content.man) = 0 THEN <<91, 93>>
              ELSE <<91, 123, 34, 122, 105, 112, 95, 112, 97, 116, 104, 34, 58, 32, 34>>
    ELSE IF content.mtop = "object" THEN <<123>>
    ELSE <<49>>

\* the iteration order of a dict
RECURSIVE KeyOrder(_)
KeyOrder(S) ==
    IF S = {} THEN <<>>
    ELSE LET k == CHOOSE x \in S : TRUE IN <<k>> \o KeyOrder(S \ {k})

\* V2ZipStore.write
V2ZipStore_write(store) ==
    LET order == KeyOrder(DOMAIN store.items)
    IN  Plaintext("zip", NoText,
          <<ZMember("META-INF/MAGIC", BytesContent(_ZIP_KEYRING_MAGIC))>>
          \o [i \in 1..Len(order) |->
                ZMember(order[i], BytesContent(store.items[order[i]].data))]
          \o <<ZMember("META-INF/CONTENTS",
                 ManifestContent(TRUE, "array",
                   [i \in 1..Len(order) |->
                      ManifestRecord({"zip_path", "mimetype"}, order[i],
                                     store.items[order[i]].mimetype)]))>>,
          <<>>)

\* ZipFile.open(name): the last member written under that name
ZipOpen(zip, name) ==
    LET at == {i \in 1..Len(zip) : zip[i].name = name}
    IN  IF at = {} THEN [ok |-> FALSE, content |-> BytesContent(<<>>)]
        ELSE [ok |-> TRUE,
              content |-> zip[CHOOSE i \in at : \A j \in at : j <= i].content]

\* a member name stored with the UTF-8 flag whose bytes are not UTF-8
BadUtf8Name == "<not UTF-8>"

\* zipfile.ZipFile(fileobj, 'r'): the exception the constructor raises while
\* it reads the central directory, or ""
ZipFile_init(pt) ==
    IF pt.fmt # "zip" THEN "BadZipFile"
    ELSE IF \E i \in 1..Len(pt.zip) : pt.zip[i].name = BadUtf8Name
         THEN "UnicodeDecodeError"
    ELSE ""

\* open_as_zip_keyring: the exception it raises, or ""
open_as_zip_keyring(pt) ==
    IF ZipFile_init(pt) = "BadZipFile" THEN "NotAZippedKeyring"
    ELSE IF ZipFile_init(pt) # "" THEN ZipFile_init(pt)
    ELSE LET m == ZipOpen(pt.zip, "META-INF/MAGIC")
         IN  IF ~m.ok \/ m.content.kind # "bytes" THEN "NotAZippedKeyring"
             ELSE IF m.content.bytes # _ZIP_KEYRING_MAGIC THEN "NotAZippedKeyring"
             ELSE ""

\* _read_contents_file up to the end of json.load: the exception, or ""
ContentsLoadError(zip) ==
    LET c == ZipOpen(zip, "META-INF/CONTENTS")
    IN  IF ~c.ok THEN "KeyError"
        ELSE IF c.content.kind # "json" \/ ~c.content.mok THEN "JSONDecodeError"
        ELSE IF c.content.mtop \in {"number", "null"} THEN "TypeError"
        ELSE ""

\* the loop of V2ZipStore.read over the generator _read_contents_file, from
\* record i on, store being what was read so far
RECURSIVE ReadEntries(_, _, _, _, _)
ReadEntries(zip, mtop, man, i, items) ==
    IF i > Len(man) THEN Return(MkStore("v2-zip", items))
    ELSE IF mtop # "array" THEN Raise("TypeError")
    ELSE IF "zip_path" \notin man[i].has \/ "mimetype" \notin man[i].has
         THEN Raise("KeyError")
    ELSE LET z == ZipOpen(zip, man[i].zip_path)
         IN  IF ~z.ok THEN Raise("KeyError")
             ELSE ReadEntries(zip, mtop, man, i + 1,
                    [k \in DOMAIN items \cup {man[i].zip_path} |->
                       IF k = man[i].zip_path
                       THEN Item(man[i].mimetype, MemberRead(z.content))
                       ELSE items[k]])

\* the members the loop of V2ZipStore.read asks zfile.open for, from record
\* i on
RECURSIVE EntriesOpened(_, _, _, _)
EntriesOpened(zip, mtop, man, i) ==
    IF i > Len(man) \/ mtop # "array" THEN {}
    ELSE IF "zip_path" \notin man[i].has \/ "mimetype" \notin man[i].has THEN {}
    ELSE {man[i].zip_path}
         \cup (IF ZipOpen(zip, man[i].zip_path).ok
               THEN EntriesOpened(zip, mtop, man, i + 1) ELSE {})

\* the members V2ZipStore.read asks zfile.open for once the archive is open
MembersOpened(pt) ==
    {"META-INF/CONTENTS"}
    \cup (IF ContentsLoadError(pt.zip) # "" THEN {}
          ELSE LET c == ZipOpen(pt.zip, "META-INF/CONTENTS").content
               IN  EntriesOpened(pt.zip, c.mtop, c.man, 1))

\* V2ZipStore.read
V2ZipStore_read(pt) ==
    IF open_as_zip_keyring(pt) # "" THEN Raise(open_as_zip_keyring(pt))
    ELSE IF ContentsLoadError(pt.zip) # "" THEN Raise(ContentsLoadError(pt.zip))
    ELSE LET c == ZipOpen(pt.zip, "META-INF/CONTENTS").content
         IN  ReadEntries(pt.zip, c.mtop, c.man, 1, EmptyItems)

-----------------------------------------------------------------------------
(* Format detection (v2_zip.py) *)

\* frozenset((b'PK\x05\x06', b'PK\x07\x08'))
ZipMagicWithoutLocalHeader == {<<80, 75, 5, 6>>, <<80, 75, 7, 8>>}

\* frozenset((b'PK\x03\x04', b'PK\x05\x06', b'PK\x07\x08'))
_ZIP_MAGIC == {<<80, 75, 3, 4>>, <<80, 75, 5, 6>>, <<80, 75, 7, 8>>}

\* fileobj.read(4) at the start of a stream: an archive with members begins
\* with the local file header of its first member, one without members with
\* the end-of-central-directory record; a gzip stream written to a nameless
\* BytesIO begins with 1f 8b, deflate, no flags
Read4(pt) ==
    CASE pt.fmt = "zip" -> IF Len(pt.zip) > 0 THEN <<80, 75, 3, 4>> ELSE <<80, 75, 5, 6>>
      [] pt.fmt = "gzip" -> <<31, 139, 8, 0>>
      [] OTHER -> SubSeq(pt.raw, 1, IF Len(pt.raw) < 4 THEN Len(pt.raw) ELSE 4)

\* V2ZipStore.magic_detect
magic_detect(pt) ==
    LET magic == Read4(pt)
    IN  IF Len(magic) # 4 THEN FALSE ELSE magic \in _ZIP_MAGIC

-----------------------------------------------------------------------------
(* The GnuPG binding *)

\* encrypted bytes: the passphrase and plaintext they were made from, and
\* how many of their MaxChunks parts are present
EmptyData == [key |-> "", pt |-> RawPlaintext(<<>>), len |-> 0]
Prefix(data, n) == IF n = 0 THEN EmptyData ELSE [data EXCEPT !.len = n]

\* gpg.encrypt(data, None, passphrase=..., symmetric=True, armor=False)
\* when gpg succeeds
Encrypt(pt, passphrase) == [key |-> passphrase, pt |-> pt, len |-> MaxChunks]

\* gpg.decrypt_file(fh, passphrase=...): ok and the plaintext, or not ok and
\* no data
Decrypt(data, passphrase) ==
    IF data.len = MaxChunks /\ data.key = passphrase
    THEN [ok |-> TRUE, data |-> data.pt]
    ELSE [ok |-> FALSE, data |-> RawPlaintext(<<>>)]

\* a file: absent, or present with its bytes
File(data) == [exists |-> TRUE, data |-> data]
Absent == [exists |-> FALSE, data |-> EmptyData]

-----------------------------------------------------------------------------
(* State *)

VARIABLES
    dest,              \* the vault file at filename
    temp,              \* the file at filename + '.writing'
    dirs,              \* the temporary GnuPG home directories that exist
    ndirs,             \* how many directories mkdtemp has made
    calls,             \* how many calls were started
    pc,                \* where the call in progress is
    op,                \* "read", "write" or "v2read"
    passphrase,        \* argument of the call
    store,             \* argument of write_keystore
    own_gpg_wrapper,   \* _wrap_gpg's local: 0 is None, else the Gpg's _temp_dir
    plaintext,         \* data_fileobj.getvalue() / the stream given to a codec
    encrypted_data,    \* the result of gpg.encrypt: ok and data
    decrypted_data,    \* the result of gpg.decrypt_file: ok and data
    written,           \* parts of encrypted_data.data that reached the file
    fh,                \* "none", "fd" (os.open done), "open", "closed"
    exc,               \* the exception propagating out of the call, or ""
    retval,            \* the value the wrapped function returned
    result,            \* what the finished call gave its caller
    destBefore,        \* history: dest when the call started
    createdDir,        \* history: the directory this call's mkdtemp made, or 0
    faults,            \* history: the steps of this call that failed
    decoded,           \* history: the codec was given the decrypted stream
    saved,             \* history: the store and passphrase dest was saved from
    zfile,             \* open_as_zip_keyring's zfile: "none", "open" or "closed"
    opened,            \* history: the archive members zfile.open was asked for
    detected,          \* what magic_detect returned, or "none"
    cli,               \* the command-line invocation in progress or finished
    conc               \* two write_keystore calls running at once on one path

vars == <<dest, temp, dirs, ndirs, calls, pc, op, passphrase, store,
          own_gpg_wrapper, plaintext, encrypted_data, decrypted_data, written,
          fh, exc, retval, result, destBefore, createdDir, faults, decoded, saved,
          zfile, opened, detected, cli, conc>>

fsVars == <<dest, temp>>
argVars == <<op, passphrase, store, calls, destBefore>>
writeLocals == <<plaintext, encrypted_data, written, fh>>
readLocals == <<decrypted_data, retval, decoded>>
zipVars == <<zfile, opened>>
extVars == <<zipVars, detected, cli, conc>>

NoCrypt == [ok |-> FALSE, data |-> EmptyData]
NoDecrypt == [ok |-> FALSE, data |-> RawPlaintext(<<>>)]
NoCli ==
    [cmd |-> "none", n |-> 0, password |-> "", confirm |-> "", key |-> "",
     outcome |-> "none", wrote |-> FALSE, objects |-> NoStore, destPrev |-> Absent,
     expect |-> EmptyItems, tracked |-> FALSE]
NoConc == [on |-> FALSE]
Saved(s, p) == [some |-> TRUE, store |-> s, passphrase |-> p]
NotSaved == [some |-> FALSE, store |-> NoStore, passphrase |-> ""]

-----------------------------------------------------------------------------
(* Vault files a call can find at filename *)

SampleStore == MkStore("v1-json", [k \in {"a"} |-> Item("text/plain", <<77>>)])

\* decrypted streams that are not what Keystore.write produces
CorruptPlaintexts ==
    { RawPlaintext(<<77, 77>>),
      _compress([utf8 |-> FALSE, json |-> FALSE, top |-> "none", members |-> <<>>]),
      _compress(NoText),
      _compress(JsonText("array", <<>>)),
      _compress(JsonText("object", [k \in {"a"} |-> JEntry({"data"}, "", <<19, 16, 64, 64>>)])),
      _compress(JsonText("object", [k \in {"a"} |-> JEntry({"type"}, "text/plain", <<>>)])),
      _compress(JsonText("object", [k \in {"a"} |-> JEntry({"type", "data"}, "text/plain", <<19, 16, 64>>)])),
      _compress(JsonText("object", [k \in {"a"} |-> JEntry({"type", "data"}, "text/plain", <<19, 65, 16, 64, 64>>)])),
      _compress(JsonText("object", [k \in {"a"} |-> JEntry({"type", "data"}, "text/plain", <<19, 66, 16, 64, 64>>)])) }

InitVaults ==
    { [file |-> Absent, saved |-> NotSaved],
      [file |-> File(Encrypt(Keystore_write(SampleStore), "hunter2")),
       saved |-> Saved(SampleStore, "hunter2")] }
    \cup { [file |-> File(Encrypt(pt, "hunter2")), saved |-> NotSaved] :
             pt \in CorruptPlaintexts }

SmallStores ==
    { MkStore(f, it) : f \in {"v1-json", "v2-zip"},
                       it \in StoresOver({"a"}, ItemsUpTo(1)) }
    \cup {PlainDict(EmptyItems)}

RichStores ==
    { MkStore(f, it) : f \in {"v1-json", "v2-zip"},
                       it \in StoresOver(Names, ItemsUpTo(MaxDataLen)) }

-----------------------------------------------------------------------------
(* Initial states *)

InitLocals ==
    /\ temp = Absent
    /\ dirs = {}
    /\ ndirs = 0
    /\ calls = 0
    /\ passphrase = ""
    /\ own_gpg_wrapper = 0
    /\ encrypted_data = NoCrypt
    /\ decrypted_data = NoDecrypt
    /\ written = 0
    /\ fh = "none"
    /\ exc = ""
    /\ retval = NoStore
    /\ result = NoResult
    /\ createdDir = 0
    /\ faults = {}
    /\ decoded = FALSE
    /\ zfile = "none"
    /\ opened = {}
    /\ detected = "none"

InitCall ==
    /\ InitLocals
    /\ pc = "idle"
    /\ op = "none"
    /\ cli = NoCli
    /\ store = NoStore
    /\ plaintext = RawPlaintext(<<>>)

Init ==
    /\ InitCall
    /\ conc = NoConc
    /\ \E v \in InitVaults : dest = v.file /\ saved = v.saved
    /\ destBefore = dest

InitRoundTrip ==
    /\ InitCall
    /\ conc = NoConc
    /\ \E v \in {w \in InitVaults : w.file = Absent \/ w.saved.some} :
          dest = v.file /\ saved = v.saved
    /\ destBefore = dest

-----------------------------------------------------------------------------
(* _wrap_gpg: entering a call *)

\* the caller is between calls
CanCall == pc \in {"idle", "done"} /\ calls < MaxCalls

Enter(o, p, s) ==
    /\ CanCall
    /\ calls' = calls + 1
    /\ op' = o
    /\ passphrase' = p
    /\ store' = s
    /\ own_gpg_wrapper' = 0
    /\ plaintext' = RawPlaintext(<<>>)
    /\ encrypted_data' = NoCrypt
    /\ decrypted_data' = NoDecrypt
    /\ written' = 0
    /\ fh' = "none"
    /\ exc' = ""
    /\ retval' = NoStore
    /\ result' = NoResult
    /\ destBefore' = dest
    /\ createdDir' = 0
    /\ faults' = {}
    /\ decoded' = FALSE
    /\ pc' = "mkdtemp"
    /\ UNCHANGED <<extVars, dest, temp, dirs, ndirs, saved>>

\* write_keystore(filename, passphrase, store) is called
CallWrite(s, p) == Enter("write", p, s)

\* read_keystore(filename, passphrase) is called
CallRead(p) == Enter("read", p, NoStore)

\* an exception leaves the wrapped function (or Gpg()) for the finally clause
Propagate(e, step) ==
    /\ exc' = e
    /\ faults' = faults \cup {step}
    /\ pc' = "finally"

\* Gpg.__init__: self._temp_dir = tempfile.mkdtemp()
Gpg_mkdtemp ==
    /\ pc = "mkdtemp"
    /\ \/ /\ ndirs' = ndirs + 1
          /\ dirs' = dirs \cup {ndirs + 1}
          /\ createdDir' = ndirs + 1
          /\ pc' = "gpg_init"
          /\ UNCHANGED <<exc, faults>>
       \/ /\ Propagate("OSError", "mkdtemp")
          /\ UNCHANGED <<ndirs, dirs, createdDir>>
    /\ UNCHANGED <<extVars, fsVars, argVars, own_gpg_wrapper, writeLocals, readLocals, result, saved>>

\* Gpg.__init__: self.gpg = gnupg.GPG(gnupghome=self._temp_dir), and the
\* assignment own_gpg_wrapper = Gpg() once the constructor returned
Gpg_init ==
    /\ pc = "gpg_init"
    /\ \/ /\ own_gpg_wrapper' = createdDir
          /\ pc' = IF op = "write" THEN "w_encode" ELSE "r_open"
          /\ UNCHANGED <<exc, faults>>
       \/ /\ Propagate("OSError", "gpg_init")
          /\ UNCHANGED own_gpg_wrapper
    /\ UNCHANGED <<extVars, fsVars, dirs, ndirs, argVars, writeLocals, readLocals, result,
                   createdDir, saved>>

-----------------------------------------------------------------------------
(* write_keystore *)

\* store.write(data_fileobj): V2ZipStore overrides Keystore.write
StoreWrite(s) ==
    IF s.format = "v2-zip" THEN V2ZipStore_write(s) ELSE Keystore_write(s)

\* with io.BytesIO() as data_fileobj: store.write(data_fileobj); a plain
\* dict has no write attribute
WriteEncode ==
    /\ pc = "w_encode"
    /\ IF store.format = "dict"
       THEN Propagate("AttributeError", "encode") /\ UNCHANGED plaintext
       ELSE /\ plaintext' = StoreWrite(store)
            /\ pc' = "w_encrypt"
            /\ UNCHANGED <<exc, faults>>
    /\ UNCHANGED <<extVars, fsVars, dirs, ndirs, argVars, own_gpg_wrapper, encrypted_data,
                   written, fh, readLocals, result, createdDir, saved>>

\* encrypted_data = gpg_context.encrypt(...): gpg succeeds, or the result is
\* not ok and carries no data, or the call raises.  The result's ok is never
\* read by write_keystore.
WriteEncrypt ==
    /\ pc = "w_encrypt"
    /\ \/ /\ encrypted_data' = [ok |-> TRUE, data |-> Encrypt(plaintext, passphrase)]
          /\ pc' = "w_open"
          /\ UNCHANGED <<exc, faults>>
       \/ /\ encrypted_data' = [ok |-> FALSE, data |-> EmptyData]
          /\ faults' = faults \cup {"encrypt"}
          /\ pc' = "w_open"
          /\ UNCHANGED exc
       \/ /\ Propagate("OSError", "encrypt")
          /\ UNCHANGED encrypted_data
    /\ UNCHANGED <<extVars, fsVars, dirs, ndirs, argVars, own_gpg_wrapper, plaintext,
                   written, fh, readLocals, result, createdDir, saved>>

\* fd = os.open(temp_filename, O_WRONLY | O_CREAT | O_TRUNC, 0o600), before
\* the try
WriteOpen ==
    /\ pc = "w_open"
    /\ \/ /\ temp' = File(EmptyData)
          /\ fh' = "fd"
          /\ pc' = "w_fdopen"
          /\ UNCHANGED <<exc, faults>>
       \/ /\ Propagate("OSError", "open")
          /\ UNCHANGED <<temp, fh>>
    /\ UNCHANGED <<extVars, dest, dirs, ndirs, argVars, own_gpg_wrapper, plaintext,
                   encrypted_data, written, readLocals, result, createdDir, saved>>

\* fh = os.fdopen(fd, 'wb'); on failure os.close(fd) and re-raise into the
\* outer except
WriteFdopen ==
    /\ pc = "w_fdopen"
    /\ \/ /\ fh' = "open"
          /\ pc' = "w_write"
          /\ UNCHANGED faults
       \/ /\ fh' = "closed"
          /\ faults' = faults \cup {"fdopen"}
          /\ pc' = "w_except"
    /\ UNCHANGED <<extVars, fsVars, dirs, ndirs, argVars, own_gpg_wrapper, plaintext,
                   encrypted_data, written, readLocals, exc, result, createdDir, saved>>

\* a variant that writes the bytes straight into the vault file
WriteChunkInPlace ==
    /\ pc = "w_write"
    /\ written < encrypted_data.data.len
    /\ written' = written + 1
    /\ dest' = File(Prefix(encrypted_data.data, written + 1))
    /\ UNCHANGED <<extVars, temp, dirs, ndirs, argVars, own_gpg_wrapper, plaintext,
                   encrypted_data, fh, pc, readLocals, exc, result, createdDir,
                   faults, saved>>

\* fh.write(encrypted_data.data): the next part of the bytes reaches the
\* temporary file
WriteChunk ==
    /\ pc = "w_write"
    /\ written < encrypted_data.data.len
    /\ written' = written + 1
    /\ temp' = File(Prefix(encrypted_data.data, written + 1))
    /\ UNCHANGED <<extVars, dest, dirs, ndirs, argVars, own_gpg_wrapper, plaintext,
                   encrypted_data, fh, pc, readLocals, exc, result, createdDir,
                   faults, saved>>

\* fh.write fails: the with block closes fh and the error reaches the except
WriteFail ==
    /\ pc = "w_write"
    /\ written < encrypted_data.data.len
    /\ fh' = "closed"
    /\ faults' = faults \cup {"write"}
    /\ pc' = "w_except"
    /\ UNCHANGED <<extVars, fsVars, dirs, ndirs, argVars, own_gpg_wrapper, plaintext,
                   encrypted_data, written, readLocals, exc, result, createdDir, saved>>

\* the end of "with fh": the file is closed, or closing it fails
WriteClose ==
    /\ pc = "w_write"
    /\ written = encrypted_data.data.len
    /\ fh' = "closed"
    /\ \/ /\ pc' = "w_rename"
          /\ UNCHANGED faults
       \/ /\ faults' = faults \cup {"close"}
          /\ pc' = "w_except"
    /\ UNCHANGED <<extVars, fsVars, dirs, ndirs, argVars, own_gpg_wrapper, plaintext,
                   encrypted_data, written, readLocals, exc, result, createdDir, saved>>

\* os.rename(temp_filename, filename)
WriteRename ==
    /\ pc = "w_rename"
    /\ \/ /\ dest' = temp
          /\ temp' = Absent
          /\ pc' = "finally"
          /\ UNCHANGED faults
       \/ /\ faults' = faults \cup {"rename"}
          /\ pc' = "w_except"
          /\ UNCHANGED fsVars
    /\ UNCHANGED <<extVars, dirs, ndirs, argVars, own_gpg_wrapper, writeLocals, readLocals,
                   exc, result, createdDir, saved>>

\* a variant whose handler leaves the temporary file behind
WriteExceptNoUnlink ==
    /\ pc = "w_except"
    /\ pc' = "finally"
    /\ UNCHANGED <<extVars, fsVars, dirs, ndirs, argVars, own_gpg_wrapper, writeLocals,
                   readLocals, exc, result, createdDir, faults, saved>>

\* except: os.unlink(temp_filename) -- the handler does not re-raise, so the
\* function goes on to return None
WriteExcept ==
    /\ pc = "w_except"
    /\ IF temp.exists
       THEN temp' = Absent /\ UNCHANGED exc
       ELSE exc' = "FileNotFoundError" /\ UNCHANGED temp
    /\ pc' = "finally"
    /\ UNCHANGED <<extVars, dest, dirs, ndirs, argVars, own_gpg_wrapper, writeLocals,
                   readLocals, result, createdDir, faults, saved>>

-----------------------------------------------------------------------------
(* read_keystore *)

\* with open(filename, 'rb') as fh
ReadOpen ==
    /\ pc = "r_open"
    /\ IF dest.exists
       THEN pc' = "r_decrypt" /\ UNCHANGED <<exc, faults>>
       ELSE Propagate("FileNotFoundError", "open")
    /\ UNCHANGED <<extVars, fsVars, dirs, ndirs, argVars, own_gpg_wrapper, writeLocals,
                   readLocals, result, createdDir, saved>>

\* decrypted_data = gpg_context.decrypt_file(fh, passphrase=passphrase)
ReadDecrypt ==
    /\ pc = "r_decrypt"
    /\ decrypted_data' = Decrypt(dest.data, passphrase)
    /\ pc' = "r_check"
    /\ UNCHANGED <<extVars, fsVars, dirs, ndirs, argVars, own_gpg_wrapper, writeLocals,
                   retval, decoded, exc, result, createdDir, faults, saved>>

\* a variant that does not look at decrypted_data.ok
ReadCheckSkipped ==
    /\ pc = "r_check"
    /\ pc' = "r_decode"
    /\ UNCHANGED <<extVars, fsVars, dirs, ndirs, argVars, own_gpg_wrapper, writeLocals,
                   readLocals, exc, result, createdDir, faults, saved>>

\* if not decrypted_data.ok: raise DecryptionError()
ReadCheck ==
    /\ pc = "r_check"
    /\ IF decrypted_data.ok
       THEN pc' = "r_decode" /\ UNCHANGED exc
       ELSE exc' = "DecryptionError" /\ pc' = "finally"
    /\ UNCHANGED <<extVars, fsVars, dirs, ndirs, argVars, own_gpg_wrapper, writeLocals,
                   readLocals, result, createdDir, faults, saved>>

\* return v1_json.V1JsonStore.read(decrypted_fileobj)
ReadDecode ==
    /\ pc = "r_decode"
    /\ decoded' = TRUE
    /\ LET r == Keystore_read(decrypted_data.data)
       IN  /\ exc' = r.exc
           /\ retval' = r.store
    /\ pc' = "finally"
    /\ UNCHANGED <<extVars, fsVars, dirs, ndirs, argVars, own_gpg_wrapper, writeLocals,
                   decrypted_data, result, createdDir, faults, saved>>

-----------------------------------------------------------------------------
(* _wrap_gpg: leaving a call *)

\* finally: if own_gpg_wrapper is not None: own_gpg_wrapper.close(), which
\* runs rm -rf on the directory; then the call returns or raises
Finally ==
    /\ pc = "finally"
    /\ dirs' = IF own_gpg_wrapper # 0 THEN dirs \ {own_gpg_wrapper} ELSE dirs
    /\ result' = IF exc # "" THEN Raise(exc) ELSE Return(retval)
    /\ saved' = IF op # "write" THEN saved
                ELSE IF faults = {} THEN Saved(store, passphrase)
                ELSE IF dest = destBefore THEN saved
                ELSE NotSaved
    /\ pc' = "done"
    /\ UNCHANGED <<extVars, fsVars, ndirs, argVars, own_gpg_wrapper, writeLocals, readLocals,
                   exc, createdDir, faults>>

\* the process stops in the middle of a call
Crash ==
    /\ pc \notin {"idle", "done", "stopped", "v2_open", "v2_read", "d_write", "d_detect"}
    /\ pc' = "stopped"
    /\ UNCHANGED <<extVars, fsVars, dirs, ndirs, argVars, own_gpg_wrapper, writeLocals,
                   readLocals, exc, result, createdDir, faults, saved>>

Step ==
    \/ Gpg_mkdtemp
    \/ Gpg_init
    \/ WriteEncode
    \/ WriteEncrypt
    \/ WriteOpen
    \/ WriteFdopen
    \/ WriteChunk
    \/ WriteFail
    \/ WriteClose
    \/ WriteRename
    \/ WriteExcept
    \/ ReadOpen
    \/ ReadDecrypt
    \/ ReadCheck
    \/ ReadDecode
    \/ Finally
    \/ Crash

\* any sequence of calls on one vault file
Next ==
    \/ CanCall /\ \E s \in SmallStores, p \in Passphrases : CallWrite(s, p)
    \/ CanCall /\ \E p \in Passphrases : CallRead(p)
    \/ Step

Spec == Init /\ [][Next]_vars

\* write_keystore followed by read_keystore calls
NextRoundTrip ==
    \/ CanCall /\ calls = 0 /\ \E s \in RichStores, p \in Passphrases : CallWrite(s, p)
    \/ CanCall /\ calls > 0 /\ \E p \in Passphrases : CallRead(p)
    \/ Step

SpecRoundTrip == InitRoundTrip /\ [][NextRoundTrip]_vars

-----------------------------------------------------------------------------
(* V2ZipStore.read applied to archives, intact and damaged *)

WithoutMember(pt, name) ==
    [pt EXCEPT !.zip = SelectSeq(pt.zip, LAMBDA m : m.name # name)]

WithContents(pt, content) ==
    [pt EXCEPT !.zip = [i \in 1..Len(pt.zip) |->
                          IF pt.zip[i].name = "META-INF/CONTENTS"
                          THEN ZMember("META-INF/CONTENTS", content)
                          ELSE pt.zip[i]]]

WithMagic(pt, bytes) ==
    [pt EXCEPT !.zip = [i \in 1..Len(pt.zip) |->
                          IF pt.zip[i].name = "META-INF/MAGIC"
                          THEN ZMember("META-INF/MAGIC", BytesContent(bytes))
                          ELSE pt.zip[i]]]

ManifestOf(pt) == ZipOpen(pt.zip, "META-INF/CONTENTS").content

Damages ==
    {"none", "no_contents", "bad_json", "object", "empty_object", "number",
     "no_mimetype", "no_zip_path", "dangling", "no_magic", "bad_magic",
     "bad_name"}

\* the archive pt after damage d
Damage(pt, d) ==
    LET c == ManifestOf(pt) IN
    CASE d = "no_contents" -> WithoutMember(pt, "META-INF/CONTENTS")
      [] d = "bad_json" -> WithContents(pt, ManifestContent(FALSE, "none", <<>>))
      [] d = "object" -> WithContents(pt, ManifestContent(TRUE, "object", c.man))
      [] d = "empty_object" -> WithContents(pt, ManifestContent(TRUE, "object", <<>>))
      [] d = "number" -> WithContents(pt, ManifestContent(TRUE, "number", <<>>))
      [] d = "no_mimetype" ->
            WithContents(pt, ManifestContent(TRUE, "array",
                [i \in 1..Len(c.man) |-> [c.man[i] EXCEPT !.has = {"zip_path"}]]))
      [] d = "no_zip_path" ->
            WithContents(pt, ManifestContent(TRUE, "array",
                [i \in 1..Len(c.man) |-> [c.man[i] EXCEPT !.has = {"mimetype"}]]))
      [] d = "dangling" ->
            IF Len(c.man) = 0 THEN pt ELSE WithoutMember(pt, c.man[Len(c.man)].zip_path)
      [] d = "no_magic" -> WithoutMember(pt, "META-INF/MAGIC")
      [] d = "bad_magic" -> WithMagic(pt, <<77>>)
      [] d = "bad_name" ->
            [pt EXCEPT !.zip = [i \in 1..Len(pt.zip) |->
                                  IF pt.zip[i].name = "META-INF/MAGIC"
                                  THEN ZMember(BadUtf8Name, pt.zip[i].content)
                                  ELSE pt.zip[i]]]
      [] OTHER -> pt

\* V2 stores, some with entries named like the archive's own members
V2Stores ==
    {r \in RichStores : r.format = "v2-zip"}
    \cup { MkStore("v2-zip", it) :
             it \in StoresOver({"a", "META-INF/MAGIC", "META-INF/CONTENTS"}, ItemsUpTo(1)) }

\* the stream given to V2ZipStore.read: what V2ZipStore.write wrote for
\* store, intact or damaged, or a stream that is no archive
InitV2 ==
    /\ InitLocals
    /\ dest = Absent
    /\ saved = NotSaved
    /\ destBefore = Absent
    /\ cli = NoCli
    /\ conc = NoConc
    /\ op = "v2read"
    /\ pc = "v2_open"
    /\ \/ \E s \in V2Stores, d \in Damages :
             /\ store = s
             /\ plaintext = Damage(V2ZipStore_write(s), d)
       \/ \E pt \in {Keystore_write(SampleStore), RawPlaintext(<<77, 77>>)} :
             /\ store = NoStore
             /\ plaintext = pt

\* V2ZipStore.read(fileobj): the call open_as_zip_keyring(fileobj)
V2Open ==
    /\ pc = "v2_open"
    /\ opened' = IF ZipFile_init(plaintext) = "" THEN {"META-INF/MAGIC"} ELSE {}
    /\ zfile' = IF ZipFile_init(plaintext) # "" THEN "none"
                ELSE IF open_as_zip_keyring(plaintext) # "" THEN "closed"
                ELSE "open"
    /\ IF open_as_zip_keyring(plaintext) # ""
       THEN result' = Raise(open_as_zip_keyring(plaintext)) /\ pc' = "done"
       ELSE pc' = "v2_read" /\ UNCHANGED result
    /\ UNCHANGED <<detected, cli, conc, fsVars, dirs, ndirs, argVars, own_gpg_wrapper,
                   writeLocals, readLocals, exc, createdDir, faults, saved>>

\* V2ZipStore.read(fileobj): the body of the with statement and its exit
V2Read ==
    /\ pc = "v2_read"
    /\ opened' = opened \cup MembersOpened(plaintext)
    /\ zfile' = "closed"
    /\ result' = V2ZipStore_read(plaintext)
    /\ pc' = "done"
    /\ UNCHANGED <<detected, cli, conc, fsVars, dirs, ndirs, argVars, own_gpg_wrapper, writeLocals,
                   readLocals, exc, createdDir, faults, saved>>

NextV2 ==
    \/ V2Open
    \/ V2Read

SpecV2 == InitV2 /\ [][NextV2]_vars

-----------------------------------------------------------------------------
(* The command line (__main__.py): each invocation runs to its exit, and no
   step of the environment fails inside read_keystore or write_keystore *)

\* read_keystore(filename, passphrase)
read_keystore(file, p) ==
    IF ~file.exists THEN Raise("FileNotFoundError")
    ELSE IF ~Decrypt(file.data, p).ok THEN Raise("DecryptionError")
    ELSE Keystore_read(Decrypt(file.data, p).data)

\* write_keystore(filename, passphrase, store): the exception it raises, or
\* "", and the file at filename afterwards
write_keystore(file, p, s) ==
    IF s.format = "dict" THEN [exc |-> "AttributeError", file |-> file]
    ELSE [exc |-> "", file |-> File(Encrypt(StoreWrite(s), p))]

\* a line typed on stdin: text surrounded by pad blanks
Line(pad, text) == [pad |-> pad, text |-> text]
KeyLines == {Line(n, t) : n \in 0..1, t \in {"", "a", "b"}}
MimetypeLines == {Line(0, "text/plain")}
Payloads == SeqsUpTo({77}, 1)

\* _prompt: sys.stdin.readline().strip()
_prompt(line) == line.text

\* _get_filename and load_keystore: how the invocation ends there ("" if it
\* goes on) and the objects loaded
load_keystore(file, p) ==
    LET r == read_keystore(file, p)
    IN  IF r.kind = "return" THEN [outcome |-> "", objects |-> r.store]
        ELSE IF r.exc = "DecryptionError" THEN [outcome |-> "exit1", objects |-> NoStore]
        ELSE [outcome |-> r.exc, objects |-> NoStore]

\* objects[key] = item
SetItem(objects, key, item) ==
    [objects EXCEPT !.items = [k \in DOMAIN objects.items \cup {key} |->
                                 IF k = key THEN item ELSE objects.items[k]]]

\* del objects[key]
DelItem(objects, key) ==
    [objects EXCEPT !.items = [k \in DOMAIN objects.items \ {key} |-> objects.items[k]]]

cliFrame ==
    <<temp, dirs, ndirs, calls, pc, op, passphrase, store, own_gpg_wrapper,
      writeLocals, readLocals, exc, result, destBefore, createdDir, faults, saved,
      zipVars, detected, conc>>

CanRun == op = "cli" /\ cli.n < MaxCommands

\* the invocation ends before write_keystore is called
Exit(cmd, p, c, key, outcome, objects) ==
    /\ cli' = [cli EXCEPT !.cmd = cmd, !.n = @ + 1, !.password = p, !.confirm = c,
                          !.key = key, !.outcome = outcome, !.wrote = FALSE,
                          !.objects = objects, !.destPrev = dest]
    /\ UNCHANGED dest

\* the invocation ends with write_keystore(filename, p, objects)
Save(cmd, p, c, key, objects, expect) ==
    LET w == write_keystore(dest, p, objects)
    IN  /\ cli' = [cli EXCEPT !.cmd = cmd, !.n = @ + 1, !.password = p, !.confirm = c,
                              !.key = key,
                              !.outcome = IF w.exc = "" THEN "ok" ELSE w.exc,
                              !.wrote = TRUE, !.objects = objects, !.destPrev = dest,
                              !.expect = IF w.exc = "" THEN expect ELSE @,
                              !.tracked = IF w.exc = "" /\ cmd = "create" THEN TRUE ELSE @]
        /\ dest' = w.file

\* ks_set without the test 'if key in objects'
ks_set_Overwriting(p, line, mline, data) ==
    LET l == load_keystore(dest, p)
        key == _prompt(line)
        item == Item(_prompt(mline), data)
    IN  /\ IF l.outcome # "" THEN Exit("set", p, "", "", l.outcome, l.objects)
           ELSE Save("set", p, "", key, SetItem(l.objects, key, item),
                     SetItem(MkStore("", cli.expect), key, item).items)
        /\ UNCHANGED cliFrame

\* keyring set
ks_set(p, line, mline, data) ==
    LET l == load_keystore(dest, p)
        key == _prompt(line)
        item == Item(_prompt(mline), data)
    IN  /\ IF l.outcome # "" THEN Exit("set", p, "", "", l.outcome, l.objects)
           ELSE IF key \in DOMAIN l.objects.items
                THEN Exit("set", p, "", key, "exit1", l.objects)
           ELSE Save("set", p, "", key, SetItem(l.objects, key, item),
                     SetItem(MkStore("", cli.expect), key, item).items)
        /\ UNCHANGED cliFrame

\* keyring delete
ks_delete(p, line) ==
    LET l == load_keystore(dest, p)
        key == _prompt(line)
    IN  /\ IF l.outcome # "" THEN Exit("delete", p, "", "", l.outcome, l.objects)
           ELSE IF key \notin DOMAIN l.objects.items
                THEN Exit("delete", p, "", key, "exit1", l.objects)
           ELSE Save("delete", p, "", key, DelItem(l.objects, key),
                     DelItem(MkStore("", cli.expect), key).items)
        /\ UNCHANGED cliFrame

\* keyring create
ks_create(p, c) ==
    /\ IF dest.exists THEN Exit("create", "", "", "", "exit1", NoStore)
       ELSE IF p # c THEN Exit("create", p, c, "", "exit1", NoStore)
       ELSE Save("create", p, c, "", PlainDict(EmptyItems), EmptyItems)
    /\ UNCHANGED cliFrame

\* keyring change-password: p is the password the vault is loaded with, n
\* and c the new password and its confirmation
ks_changepw(p, n, c) ==
    LET l == load_keystore(dest, p)
    IN  /\ IF l.outcome # "" THEN Exit("changepw", n, c, "", l.outcome, l.objects)
           ELSE IF n # c THEN Exit("changepw", n, c, "", "exit1", l.objects)
           ELSE Save("changepw", n, c, "", l.objects, cli.expect)
        /\ UNCHANGED cliFrame

\* the vault an invocation finds: none, or an empty store saved under
\* "hunter2" as V1JsonStore().write writes it
InitCli ==
    /\ InitLocals
    /\ pc = "idle"
    /\ op = "cli"
    /\ conc = NoConc
    /\ store = NoStore
    /\ plaintext = RawPlaintext(<<>>)
    /\ saved = NotSaved
    /\ dest \in {Absent, File(Encrypt(Keystore_write(MkStore("v1-json", EmptyItems)), "hunter2"))}
    /\ destBefore = dest
    /\ cli = [NoCli EXCEPT !.tracked = dest.exists, !.destPrev = dest]

NextCli ==
    \/ CanRun /\ \E p \in Passphrases, line \in KeyLines, mline \in MimetypeLines,
                     data \in Payloads : ks_set(p, line, mline, data)
    \/ CanRun /\ \E p \in Passphrases, line \in KeyLines : ks_delete(p, line)
    \/ CanRun /\ \E p, c \in Passphrases : ks_create(p, c)
    \/ CanRun /\ \E p, n, c \in Passphrases : ks_changepw(p, n, c)

SpecCli == InitCli /\ [][NextCli]_vars

-----------------------------------------------------------------------------
(* Two write_keystore calls on one filename at once (store/__init__.py,
   lines 79-97): files are inodes reached through the names filename and
   filename + '.writing', or through a file descriptor *)

Writers == {"A", "B"}

\* part i of writer w's encrypted_data.data; GnuPG draws a fresh salt and
\* session key, so no two ciphertexts share a part
Part(w, i) == <<w, i>>
Hole == <<"zero", 0>>
Ciphertext(w) == [i \in 1..MaxChunks |-> Part(w, i)]
OldVault == [i \in 1..MaxChunks |-> Part("old", i)]

\* write(fd, part) at offset off of a file holding content
WriteAt(content, off, part) ==
    [i \in 1..(IF Len(content) > off + 1 THEN Len(content) ELSE off + 1) |->
        IF i = off + 1 THEN part
        ELSE IF i <= Len(content) THEN content[i]
        ELSE Hole]

NewWriter == [pc |-> "open", fd |-> 0, off |-> 0, exc |-> ""]

\* inode 1 is the vault before the calls; names bound to 0 do not exist
InitConcRecord ==
    [on |-> TRUE,
     ino |-> <<OldVault>>,
     temp |-> 0,
     dest |-> 1,
     w |-> [x \in Writers |-> NewWriter],
     shared |-> FALSE]

concFrame ==
    <<dest, temp, dirs, ndirs, calls, pc, op, passphrase, store, own_gpg_wrapper,
      writeLocals, readLocals, exc, result, destBefore, createdDir, faults, saved,
      zipVars, detected, cli>>

\* fd = os.open(temp_filename, O_WRONLY | O_CREAT | O_TRUNC, 0o600) and
\* fh = os.fdopen(fd, 'wb')
ConcOpen(x) ==
    /\ conc.on
    /\ conc.w[x].pc = "open"
    /\ IF conc.temp # 0
       THEN conc' = [conc EXCEPT !.ino[conc.temp] = <<>>,
                                 !.w[x].fd = conc.temp,
                                 !.w[x].pc = "write",
                                 !.shared = TRUE]
       ELSE conc' = [conc EXCEPT !.ino = Append(@, <<>>),
                                 !.temp = Len(conc.ino) + 1,
                                 !.w[x].fd = Len(conc.ino) + 1,
                                 !.w[x].pc = "write"]
    /\ UNCHANGED concFrame

\* fh.write(encrypted_data.data) written through to the descriptor in place
\* of the vault file's name
ConcWriteToDest(x) ==
    /\ conc.on
    /\ conc.w[x].pc = "write"
    /\ conc.w[x].off < MaxChunks
    /\ conc' = [conc EXCEPT !.ino[conc.dest] =
                                 WriteAt(@, conc.w[x].off, Part(x, conc.w[x].off + 1)),
                             !.w[x].off = @ + 1]
    /\ UNCHANGED concFrame

\* fh.write(encrypted_data.data): one part reaches the file behind fd, at
\* the descriptor's own offset
ConcWrite(x) ==
    /\ conc.on
    /\ conc.w[x].pc = "write"
    /\ conc.w[x].off < MaxChunks
    /\ conc' = [conc EXCEPT !.ino[conc.w[x].fd] =
                                 WriteAt(@, conc.w[x].off, Part(x, conc.w[x].off + 1)),
                             !.w[x].off = @ + 1]
    /\ UNCHANGED concFrame

\* the end of 'with fh:'
ConcClose(x) ==
    /\ conc.on
    /\ conc.w[x].pc = "write"
    /\ conc.w[x].off = MaxChunks
    /\ conc' = [conc EXCEPT !.w[x].pc = "rename"]
    /\ UNCHANGED concFrame

\* os.rename(temp_filename, filename)
ConcRename(x) ==
    /\ conc.on
    /\ conc.w[x].pc = "rename"
    /\ IF conc.temp = 0
       THEN conc' = [conc EXCEPT !.w[x].pc = "unlink"]
       ELSE conc' = [conc EXCEPT !.dest = conc.temp, !.temp = 0, !.w[x].pc = "done"]
    /\ UNCHANGED concFrame

\* except: os.unlink(temp_filename); its own error leaves the call
ConcUnlink(x) ==
    /\ conc.on
    /\ conc.w[x].pc = "unlink"
    /\ IF conc.temp = 0
       THEN conc' = [conc EXCEPT !.w[x].pc = "done", !.w[x].exc = "FileNotFoundError"]
       ELSE conc' = [conc EXCEPT !.temp = 0, !.w[x].pc = "done"]
    /\ UNCHANGED concFrame

InitConc ==
    /\ InitCall
    /\ dest = Absent
    /\ saved = NotSaved
    /\ destBefore = Absent
    /\ conc = InitConcRecord

NextConc ==
    \/ \E x \in Writers : ConcOpen(x)
    \/ \E x \in Writers : ConcWrite(x)
    \/ \E x \in Writers : ConcClose(x)
    \/ \E x \in Writers : ConcRename(x)
    \/ \E x \in Writers : ConcUnlink(x)

SpecConc == InitConc /\ [][NextConc]_vars

-----------------------------------------------------------------------------
(* V2ZipStore.magic_detect applied to written stores and to other streams *)

\* streams of up to MaxStreamLen bytes that no codec wrote
RawStreams == { RawPlaintext(b) : b \in SeqsUpTo({80, 75, 3, 4}, MaxStreamLen) }

InitDetect ==
    /\ InitLocals
    /\ dest = Absent
    /\ saved = NotSaved
    /\ destBefore = Absent
    /\ op = "detect"
    /\ cli = NoCli
    /\ conc = NoConc
    /\ \/ \E s \in RichStores :
             /\ store = s
             /\ plaintext = RawPlaintext(<<>>)
             /\ pc = "d_write"
       \/ \E pt \in RawStreams :
             /\ store = NoStore
             /\ plaintext = pt
             /\ pc = "d_detect"

\* store.write(data_fileobj)
DetectWrite ==
    /\ pc = "d_write"
    /\ plaintext' = StoreWrite(store)
    /\ pc' = "d_detect"
    /\ UNCHANGED <<extVars, fsVars, dirs, ndirs, argVars, own_gpg_wrapper, encrypted_data,
                   written, fh, readLocals, exc, result, createdDir, faults, saved>>

\* V2ZipStore.magic_detect(fileobj)
Detect ==
    /\ pc = "d_detect"
    /\ detected' = IF magic_detect(plaintext) THEN "True" ELSE "False"
    /\ pc' = "done"
    /\ UNCHANGED <<zipVars, cli, conc, fsVars, dirs, ndirs, argVars, own_gpg_wrapper,
                   writeLocals, readLocals, exc, result, createdDir, faults, saved>>

NextDetect ==
    \/ DetectWrite
    \/ Detect

SpecDetect == InitDetect /\ [][NextDetect]_vars

-----------------------------------------------------------------------------
(* Properties *)

IoSteps == {"fdopen", "write", "close", "rename"}

\* the read in progress or finished met no failure of its own and reads a
\* vault that a complete write_keystore(store, passphrase) saved
ReadOfSaved ==
    /\ op = "read"
    /\ pc = "done"
    /\ faults = {}
    /\ saved.some

\* C1: a V1 store written by write_keystore under a passphrase and read back
\* by read_keystore under the same passphrase comes back with the same names
\* and, per name, the same mimetype and payload.
C1_RoundTripV1 ==
    (ReadOfSaved /\ saved.store.format = "v1-json" /\ passphrase = saved.passphrase)
        => /\ result.kind = "return"
           /\ DOMAIN result.store.items = DOMAIN saved.store.items
           /\ \A k \in DOMAIN saved.store.items :
                 /\ result.store.items[k].mimetype = saved.store.items[k].mimetype
                 /\ result.store.items[k].data = saved.store.items[k].data

C1_Witness ==
    /\ ReadOfSaved
    /\ calls >= 2
    /\ saved.store.format = "v1-json"
    /\ passphrase = saved.passphrase
    /\ Cardinality(DOMAIN saved.store.items) = 2
    /\ \E k \in DOMAIN saved.store.items : Len(saved.store.items[k].data) = MaxDataLen
    /\ result.kind = "return"

\* C2: a V2 store written by write_keystore and read back by read_keystore
\* under the same passphrase comes back equal to the store written.
C2_RoundTripV2 ==
    (ReadOfSaved /\ saved.store.format = "v2-zip" /\ passphrase = saved.passphrase)
        => /\ result.kind = "return"
           /\ result.store.items = saved.store.items

\* C3: when the encryption step of write_keystore fails, the vault file is
\* what it was before the call and no '.writing' file exists once the call
\* is over.
C3_AtomicOnEncryptFailure ==
    (op = "write" /\ pc = "done" /\ "encrypt" \in faults)
        => /\ dest = destBefore
           /\ ~temp.exists

\* C4: during write_keystore, a process stop included, the vault file holds
\* what it held before the call or the complete bytes being saved, and it
\* changes only in the rename step, taken after all bytes were written to
\* the '.writing' file and that file was closed.
C4_DestChangesOnlyByRename ==
    /\ [](op = "write" => (dest = destBefore \/ dest = File(encrypted_data.data)))
    /\ [][dest' # dest =>
            /\ pc = "w_rename"
            /\ fh = "closed"
            /\ written = encrypted_data.data.len
            /\ temp = File(encrypted_data.data)
            /\ dest' = File(encrypted_data.data)]_vars

C4_Witness ==
    /\ op = "write"
    /\ pc = "done"
    /\ destBefore.exists
    /\ encrypted_data.ok
    /\ dest # destBefore
    /\ dest = File(encrypted_data.data)

\* C5: when fdopen, the write, the close or the rename fails, the '.writing'
\* file is removed and the vault file is what it was before the call.
C5_TempRemovedOnFailure ==
    (op = "write" /\ pc \in {"finally", "done"} /\ faults \cap IoSteps # {})
        => /\ ~temp.exists
           /\ dest = destBefore

C5_Witness ==
    /\ op = "write"
    /\ pc = "done"
    /\ "rename" \in faults
    /\ destBefore.exists
    /\ ~temp.exists
    /\ dest = destBefore

\* C6: a filesystem failure while writing the temporary file or renaming it
\* reaches the caller as an error, and write_keystore returns normally only
\* when the vault file holds the newly encrypted store.
C6_IoFailureReported ==
    (op = "write" /\ pc = "done")
        => /\ (faults \cap (IoSteps \cup {"open"}) # {} => result.kind = "raise")
           /\ (result.kind = "return"
                 => dest = File(Encrypt(StoreWrite(store), passphrase)))

\* C7: read_keystore with a passphrase other than the one the vault was saved
\* under raises DecryptionError and nothing else, before the codec is given
\* anything, and leaves the vault file as it was.
C7_WrongPassphrase ==
    /\ (op = "read" /\ saved.some /\ passphrase # saved.passphrase)
          => (~decoded /\ dest = destBefore)
    /\ (ReadOfSaved /\ passphrase # saved.passphrase)
          => result = Raise("DecryptionError")

C7_Witness ==
    /\ ReadOfSaved
    /\ calls >= 2
    /\ saved.store # SampleStore
    /\ passphrase # saved.passphrase
    /\ result = Raise("DecryptionError")

\* C8: the temporary GnuPG home directory a call makes is deleted before the
\* call returns, on every way out, so that no such directory exists after
\* any sequence of finished calls.
C8_TrustStoreDeleted ==
    pc = "done" => (createdDir \notin dirs /\ dirs = {})

\* C9: a decode failure after a successful decryption is reported as
\* CorruptVault (not DecryptionError), and the vault file is not modified.
C9_DecodeFailureIsCorruptVault ==
    (op = "read" /\ pc = "done" /\ decoded
        /\ (exc # "" \/ decrypted_data.data \in CorruptPlaintexts))
        => /\ result = Raise("CorruptVault")
           /\ dest = destBefore

\* the manifest of archive pt is missing, is not a JSON array of
\* {zip_path, mimetype} records, or lists a path that is no member
ManifestCorrupt(pt) ==
    LET c == ZipOpen(pt.zip, "META-INF/CONTENTS")
    IN  \/ ~c.ok
        \/ c.content.kind # "json"
        \/ ~c.content.mok
        \/ c.content.mtop # "array"
        \/ \E i \in 1..Len(c.content.man) :
              \/ c.content.man[i].has # {"zip_path", "mimetype"}
              \/ ~ZipOpen(pt.zip, c.content.man[i].zip_path).ok

\* C10: V2ZipStore.read of an archive with a valid META-INF/MAGIC whose
\* manifest is corrupt fails with CorruptZippedKeyring and returns no store.
C10_ManifestCorruptionReported ==
    (op = "v2read" /\ pc = "done" /\ open_as_zip_keyring(plaintext) = ""
        /\ ManifestCorrupt(plaintext))
        => result = Raise("CorruptZippedKeyring")

\* the input of V2ZipStore.read is no ZIP archive the library can open, or
\* has no member META-INF/MAGIC, or that member is not the marker
MagicInvalid(pt) ==
    \/ ZipFile_init(pt) # ""
    \/ ~ZipOpen(pt.zip, "META-INF/MAGIC").ok
    \/ ZipOpen(pt.zip, "META-INF/MAGIC").content # BytesContent(_ZIP_KEYRING_MAGIC)

\* C11: when the input is not a ZIP archive, or META-INF/MAGIC is absent or
\* is not exactly the marker, V2ZipStore.read fails with NotAZippedKeyring
\* before META-INF/CONTENTS or any entry member is opened, and no archive
\* handle is left open.
C11_OpenValidation ==
    (op = "v2read" /\ pc = "done" /\ MagicInvalid(plaintext))
        => /\ result = Raise("NotAZippedKeyring")
           /\ opened \subseteq {"META-INF/MAGIC"}
           /\ zfile # "open"

\* C12: magic_detect is true on what V2ZipStore.write wrote for any store,
\* the empty one included, false on what V1JsonStore.write wrote, and false
\* on any stream of fewer than 4 bytes.
C12_FormatDetection ==
    (op = "detect" /\ pc = "done")
        => /\ (store.format = "v2-zip" => detected = "True")
           /\ (store.format = "v1-json" => detected = "False")
           /\ ((plaintext.fmt = "raw" /\ Len(plaintext.raw) < 4) => detected = "False")

C12_Witness ==
    /\ op = "detect"
    /\ pc = "done"
    /\ store = MkStore("v2-zip", EmptyItems)
    /\ plaintext = V2ZipStore_write(store)
    /\ detected = "True"

\* the store the vault file holds, loaded with the passphrase it was saved under
Persisted == read_keystore(dest, dest.data.key)

\* C13: in every store a command holds in memory or leaves in the vault
\* file, no entry has the empty name: a set with an empty key is neither
\* stored nor persisted.  (Names are unique by construction: a store is a
\* dict.)
C13_NoEmptyName ==
    op = "cli"
        => /\ "" \notin DOMAIN cli.objects.items
           /\ (Persisted.kind = "return" => "" \notin DOMAIN Persisted.store.items)

\* C15: after ks_create on a path that does not exist, with matching
\* passwords, the vault file exists and loads under that password as an
\* empty store; and after successful ks_set and ks_delete invocations the
\* vault loads as the mapping those operations give from the empty mapping.
C15_VaultLifecycle ==
    /\ (op = "cli" /\ cli.cmd = "create" /\ ~cli.destPrev.exists
           /\ cli.password = cli.confirm)
          => /\ dest.exists
             /\ read_keystore(dest, cli.password).kind = "return"
             /\ read_keystore(dest, cli.password).store.items = EmptyItems
    /\ (op = "cli" /\ cli.tracked)
          => /\ Persisted.kind = "return"
             /\ Persisted.store.items = cli.expect

\* the last invocation is one the command line must reject: a set of a key
\* the vault holds, a delete of a key it does not hold, a create on an
\* existing path, or a create or change-password whose confirmation differs
Rejected ==
    LET before == read_keystore(cli.destPrev, cli.password)
    IN  \/ /\ cli.cmd = "set"
           /\ before.kind = "return"
           /\ cli.key \in DOMAIN before.store.items
        \/ /\ cli.cmd = "delete"
           /\ before.kind = "return"
           /\ cli.key \notin DOMAIN before.store.items
        \/ /\ cli.cmd = "create"
           /\ cli.destPrev.exists
        \/ /\ cli.cmd \in {"create", "changepw"}
           /\ cli.password # cli.confirm

\* C17: a rejected invocation ends with an error, without a call of
\* write_keystore, and the vault file is what it was before.
C17_RejectedLeavesVault ==
    (op = "cli" /\ Rejected)
        => /\ cli.outcome \notin {"ok", "none"}
           /\ ~cli.wrote
           /\ dest = cli.destPrev

C17_Witness ==
    /\ op = "cli"
    /\ cli.cmd = "set"
    /\ cli.key = "a"
    /\ read_keystore(cli.destPrev, cli.password).kind = "return"
    /\ "a" \in DOMAIN read_keystore(cli.destPrev, cli.password).store.items
    /\ cli.outcome = "exit1"
    /\ ~cli.wrote
    /\ dest = cli.destPrev

\* C14: V2ZipStore.read of what V2ZipStore.write wrote for a store returns
\* that store, every entry under its name with its payload, whatever the
\* names: META-INF/MAGIC and META-INF/CONTENTS are never taken for, or
\* replaced by, an entry's member.
C14_RoundTripEveryName ==
    (op = "v2read" /\ pc = "done" /\ store.format = "v2-zip"
        /\ plaintext = V2ZipStore_write(store))
        => /\ result.kind = "return"
           /\ result.store.items = store.items

\* both calls are over
BothDone == conc.on /\ \A x \in Writers : conc.w[x].pc = "done"

\* the vault file holds the complete ciphertext of one of the calls
DestComplete == conc.dest # 0 /\ \E x \in Writers : conc.ino[conc.dest] = Ciphertext(x)

\* C16: two write_keystore calls on one path can end with the vault file
\* holding neither call's complete ciphertext, or with one call's rename and
\* unlink failing.  This happens when, and only when, one call opened with
\* truncation the '.writing' file the other call had made: then one call's
\* rename and unlink fail; otherwise the vault file holds one call's
\* complete ciphertext and neither call fails.
C16_ConcurrentWriters ==
    BothDone
        => IF conc.shared
           THEN \E x \in Writers : conc.w[x].exc = "FileNotFoundError"
           ELSE /\ DestComplete
                /\ \A x \in Writers : conc.w[x].exc = ""

C16_Witness ==
    /\ BothDone
    /\ conc.shared
    /\ ~DestComplete
    /\ conc.ino[conc.dest] # OldVault
    /\ \E x \in Writers : conc.w[x].exc = "FileNotFoundError"

====
